---- MODULE Spec2Model ----
\* Model of case/scripts/quarter_cylinder_mesh.py: the run driver (main), the
\* mesh descriptor builder (build_quarter_cylinder) and the patch-type
\* corrector (enforce_patch_type).  Text is modelled character by character:
\* a string is a sequence of one-character strings, a file is the sequence of
\* characters stored on disk.
EXTENDS Integers, Sequences, FiniteSets, TLC

VARIABLES disk, cfg, sym_type, chops, pc, patch_name, patch_type, lines, idx,
          in_patch, seen_name, changed, updated, result, err, orig, first, calls

vars == <<disk, cfg, sym_type, chops, pc, patch_name, patch_type, lines, idx,
          in_patch, seen_name, changed, updated, result, err, orig, first, calls>>

-----------------------------------------------------------------------------
\* Bounds of the model.

\* Longest descriptor file, in lines.
MaxLines == 4

\* How many times in succession the corrector is applied to the same file.
MaxCalls == 2

-----------------------------------------------------------------------------
\* Characters and literals.

LF == "\n"
CR == "\r"
SP == " "
TAB == "\t"

\* The characters str.strip() removes that occur in the modelled texts.
Whitespace == {SP, TAB, LF, CR}

S_type == <<"t", "y", "p", "e">>
S_open == <<"{">>
S_close == <<"}">>
S_symmetry == <<"s", "y", "m", "m", "e", "t", "r", "y">>
S_symmetryplane == <<"s", "y", "m", "m", "e", "t", "r", "y", "p", "l", "a", "n", "e">>
S_symmetryPlane == <<"s", "y", "m", "m", "e", "t", "r", "y", "P", "l", "a", "n", "e">>
S_SymmetryPlane == <<"S", "y", "m", "m", "e", "t", "r", "y", "P", "l", "a", "n", "e">>
S_patch == <<"p", "a", "t", "c", "h">>
S_wall == <<"w", "a", "l", "l">>
S_inlet == <<"i", "n", "l", "e", "t">>
S_None == <<"N", "o", "n", "e">>

\* The output path before anything was written to it.
NoFile == <<"ENOENT">>

-----------------------------------------------------------------------------
\* Python string operations, as the code uses them.

Min(a, b) == IF a < b THEN a ELSE b
Max(a, b) == IF a > b THEN a ELSE b

\* str.lower() on one character (ASCII letters of the modelled texts).
LowerChar(c) ==
    CASE c = "S" -> "s"
      [] c = "P" -> "p"
      [] c = "Y" -> "y"
      [] c = "W" -> "w"
      [] OTHER -> c

\* str.lower()
Lower(s) == [k \in 1..Len(s) |-> LowerChar(s[k])]

\* Number of leading whitespace characters of s.
RECURSIVE LeadingWs(_)
LeadingWs(s) ==
    IF s = <<>> \/ Head(s) \notin Whitespace THEN 0 ELSE 1 + LeadingWs(Tail(s))

\* Number of trailing whitespace characters of s.
RECURSIVE TrailingWs(_)
TrailingWs(s) ==
    IF s = <<>> \/ s[Len(s)] \notin Whitespace THEN 0
    ELSE 1 + TrailingWs(SubSeq(s, 1, Len(s) - 1))

\* str.strip()
Strip(s) ==
    IF LeadingWs(s) = Len(s) THEN <<>>
    ELSE SubSeq(s, LeadingWs(s) + 1, Len(s) - TrailingWs(s))

\* str.startswith(p)
StartsWith(s, p) == Len(s) >= Len(p) /\ SubSeq(s, 1, Len(p)) = p

\* str.find(p): 0-based index of the first occurrence of p in s, -1 if none.
Find(s, p) ==
    LET hits == {k \in 0..(Len(s) - Len(p)) : SubSeq(s, k + 1, k + Len(p)) = p}
    IN  IF hits = {} THEN -1 ELSE CHOOSE k \in hits : \A j \in hits : k <= j

\* s[:k], with Python's meaning of a negative k.
SliceTo(s, k) ==
    IF k >= 0 THEN SubSeq(s, 1, Min(k, Len(s)))
    ELSE SubSeq(s, 1, Max(Len(s) + k, 0))

\* Text-mode reading translates "\r\n" and "\r" to "\n" (newline=None).
RECURSIVE TranslateNewlines(_)
TranslateNewlines(b) ==
    IF b = <<>> THEN <<>>
    ELSE IF Head(b) = CR
         THEN <<LF>> \o TranslateNewlines(
                  IF Len(b) >= 2 /\ b[2] = LF THEN SubSeq(b, 3, Len(b)) ELSE Tail(b))
         ELSE <<Head(b)>> \o TranslateNewlines(Tail(b))

\* Splits translated text after every "\n", each line keeping its "\n".
RECURSIVE SplitKeepEnds(_)
SplitKeepEnds(t) ==
    IF t = <<>> THEN <<>>
    ELSE LET ends == {k \in 1..Len(t) : t[k] = LF}
             k == IF ends = {} THEN Len(t)
                  ELSE CHOOSE e \in ends : \A j \in ends : e <= j
         IN  <<SubSeq(t, 1, k)>> \o SplitKeepEnds(SubSeq(t, k + 1, Len(t)))

\* open(path, "r", encoding="utf-8").readlines()
Readlines(b) == SplitKeepEnds(TranslateNewlines(b))

\* f.writelines(updated): the lines one after the other; "\n" is written as
\* os.linesep, which is "\n" on the platform modelled.
RECURSIVE WritelinesAddsNewline(_)
WritelinesAddsNewline(ls) ==
    IF ls = <<>> THEN <<>> ELSE Head(ls) \o <<LF>> \o WritelinesAddsNewline(Tail(ls))

RECURSIVE Writelines(_)
Writelines(ls) == IF ls = <<>> THEN <<>> ELSE Head(ls) \o Writelines(Tail(ls))

-----------------------------------------------------------------------------
\* Configuration values.  A value read from the YAML mapping is None, a string
\* or an integer; s holds str(value).

NoneVal == [kind |-> "none", s |-> S_None]
StrVal(s) == [kind |-> "str", s |-> s]
IntVal(digits) == [kind |-> "int", s |-> digits]

\* Python truthiness of a configuration value.
Truthy(v) ==
    CASE v.kind = "none" -> FALSE
      [] v.kind = "str" -> v.s # <<>>
      [] v.kind = "int" -> v.s # <<"0">>

\* str(v), as the f-string formats it.
Str(v) == v.s

\* sym_type = cfg.get("symmetry_patch_type") or "symmetry";
\* if str(sym_type).lower() == "symmetryplane": sym_type = "symmetry"
NormalizeNoLower(token) ==
    LET t == IF Truthy(token) THEN token ELSE StrVal(S_symmetry)
    IN  IF Str(t) = S_symmetryplane THEN StrVal(S_symmetry) ELSE t

NormalizeNoDefault(token) ==
    IF Lower(Str(token)) = S_symmetryplane THEN StrVal(S_symmetry) ELSE token

NormalizeSymType(token) ==
    LET t == IF Truthy(token) THEN token ELSE StrVal(S_symmetry)
    IN  IF Lower(Str(t)) = S_symmetryplane THEN StrVal(S_symmetry) ELSE t

-----------------------------------------------------------------------------
\* Grading policy of build_quarter_cylinder.  Lengths are in thousandths, the
\* expansion ratio in tenths; an optional value is a sequence of length 0 or 1.

C2C_EXPANSION_TENTHS == 12
DEFAULT_AXIAL_CELLS == 20
DEFAULT_RADIAL_CELLS == 8
DEFAULT_TANGENTIAL_CELLS == 12

RadialChopUngraded(count, wall_thickness) == [count |-> count]

RadialChop(count, wall_thickness) ==
    IF wall_thickness = <<>>
    THEN [count |-> count]
    ELSE [count |-> count, end_size |-> wall_thickness[1],
          c2c_expansion |-> C2C_EXPANSION_TENTHS]

Chops(c) ==
    [axial |-> [count |-> c.axial_cells],
     radial |-> RadialChop(c.radial_cells, c.wall_thickness),
     tangential |-> [count |-> c.tangential_cells]]

-----------------------------------------------------------------------------
\* The corrector's loop body.

\* line = f"{indent}type {patch_type};\n", indent = line[: line.find("type")]
RewriteLineNoKeyword(line, ptype) ==
    SliceTo(line, Find(line, S_type)) \o Str(ptype) \o <<";", LF>>

RewriteLine(line, ptype) ==
    SliceTo(line, Find(line, S_type)) \o S_type \o <<SP>> \o Str(ptype) \o <<";", LF>>

\* One iteration of `for line in lines`, from the flags s before the line to
\* the flags after it and the line appended to `updated`.
ScanStepKeepsSeenName(s, line, pname, ptype) ==
    LET stripped == Strip(line)
        enter == ~s.in_patch /\ stripped # pname /\ s.seen_name /\ StartsWith(stripped, S_open)
        inp1 == s.in_patch \/ enter
        seen1 == IF s.in_patch THEN s.seen_name
                 ELSE IF stripped = pname THEN TRUE
                 ELSE s.seen_name
        rewrite == inp1 /\ StartsWith(stripped, S_type)
    IN  [in_patch |-> inp1 /\ ~StartsWith(stripped, S_close),
         seen_name |-> seen1,
         changed |-> s.changed \/ rewrite,
         line |-> IF rewrite THEN RewriteLine(line, ptype) ELSE line]

ScanStepChangedOnEntry(s, line, pname, ptype) ==
    LET stripped == Strip(line)
        enter == ~s.in_patch /\ stripped # pname /\ s.seen_name /\ StartsWith(stripped, S_open)
        inp1 == s.in_patch \/ enter
        seen1 == IF s.in_patch THEN s.seen_name
                 ELSE IF stripped = pname THEN TRUE
                 ELSE IF enter THEN FALSE ELSE s.seen_name
        rewrite == inp1 /\ StartsWith(stripped, S_type)
    IN  [in_patch |-> inp1 /\ ~StartsWith(stripped, S_close),
         seen_name |-> seen1,
         changed |-> s.changed \/ rewrite \/ enter,
         line |-> IF rewrite THEN RewriteLine(line, ptype) ELSE line]

ScanStep(s, line, pname, ptype) ==
    LET stripped == Strip(line)
        enter == ~s.in_patch /\ stripped # pname /\ s.seen_name /\ StartsWith(stripped, S_open)
        inp1 == s.in_patch \/ enter
        seen1 == IF s.in_patch THEN s.seen_name
                 ELSE IF stripped = pname THEN TRUE
                 ELSE IF enter THEN FALSE ELSE s.seen_name
        rewrite == inp1 /\ StartsWith(stripped, S_type)
    IN  [in_patch |-> inp1 /\ ~StartsWith(stripped, S_close),
         seen_name |-> seen1,
         changed |-> s.changed \/ rewrite,
         line |-> IF rewrite THEN RewriteLine(line, ptype) ELSE line]

\* The RuntimeError of enforce_patch_type.
FailureMessage(pname, ptype) == [patch |-> pname, type |-> Str(ptype)]

NoError == [patch |-> <<>>, type |-> <<>>]

-----------------------------------------------------------------------------
\* Inputs.

\* Line texts, without their line terminator, as the engine writes them: a
\* patch's name line, another patch's name line, the braces of a block and a
\* `type` attribute line.
EngineLineTexts ==
    { <<TAB>> \o S_symmetryPlane,
      <<TAB>> \o S_inlet \o <<SP>>,
      <<TAB>> \o S_open,
      <<TAB, TAB>> \o S_type \o <<SP>> \o S_patch \o <<";">>,
      <<TAB>> \o S_close }

\* Line texts of an arbitrary descriptor: also a `type` line indented with a
\* space and followed by one.
LineTexts == EngineLineTexts \cup { <<SP>> \o S_type \o <<SP>> \o S_wall \o <<";", SP>> }

\* Line terminators a descriptor file may use.
LineEnds == { <<LF>>, <<CR, LF>> }

\* The file of the given line texts, each but possibly the last terminated.
RECURSIVE JoinLines(_, _, _)
JoinLines(ts, eol, final) ==
    IF ts = <<>> THEN <<>>
    ELSE Head(ts) \o (IF Len(ts) > 1 \/ final THEN eol ELSE <<>>)
         \o JoinLines(Tail(ts), eol, final)

LineSeqs == UNION { [1..n -> LineTexts] : n \in 0..MaxLines }

Files == { JoinLines(ts, eol, final) : ts \in LineSeqs, eol \in LineEnds, final \in BOOLEAN }

\* What the mesh engine may serialize: "\n"-terminated descriptors.
EngineOutputs ==
    { JoinLines(ts, <<LF>>, TRUE) : ts \in UNION { [1..n -> EngineLineTexts] : n \in 0..MaxLines } }

PatchTypes == { StrVal(S_symmetry), StrVal(S_patch) }

SymTypeTokens ==
    { NoneVal, StrVal(<<>>), StrVal(S_symmetryPlane), StrVal(S_SymmetryPlane),
      StrVal(S_wall), IntVal(<<"0">>) }

WallThicknesses == { <<>>, <<0>>, <<1>> }

RadialCells == { 1, DEFAULT_RADIAL_CELLS }

Configs ==
    [symmetry_patch_type : SymTypeTokens,
     symmetry_patch : {S_symmetryPlane},
     wall_thickness : WallThicknesses,
     axial_cells : {DEFAULT_AXIAL_CELLS},
     radial_cells : RadialCells,
     tangential_cells : {DEFAULT_TANGENTIAL_CELLS}]

DefaultConfig ==
    [symmetry_patch_type |-> NoneVal, symmetry_patch |-> S_symmetryPlane,
     wall_thickness |-> <<>>, axial_cells |-> DEFAULT_AXIAL_CELLS,
     radial_cells |-> DEFAULT_RADIAL_CELLS,
     tangential_cells |-> DEFAULT_TANGENTIAL_CELLS]

NoChops == [axial |-> [count |-> 0], radial |-> [count |-> 0], tangential |-> [count |-> 0]]

-----------------------------------------------------------------------------
\* Actions of enforce_patch_type.

\* lines = f.readlines(); in_patch = seen_name = changed = False; updated = []
ReadLines ==
    /\ pc = "enforce"
    /\ disk # NoFile
    /\ lines' = Readlines(disk)
    /\ orig' = disk
    /\ in_patch' = FALSE
    /\ seen_name' = FALSE
    /\ changed' = FALSE
    /\ updated' = <<>>
    /\ idx' = 1
    /\ pc' = "scan"
    /\ UNCHANGED <<disk, cfg, sym_type, chops, patch_name, patch_type, result, err, first, calls>>

\* One iteration of the loop over lines.
ScanLine ==
    /\ pc = "scan"
    /\ idx <= Len(lines)
    /\ LET r == ScanStep([in_patch |-> in_patch, seen_name |-> seen_name, changed |-> changed],
                         lines[idx], patch_name, patch_type)
       IN  /\ in_patch' = r.in_patch
           /\ seen_name' = r.seen_name
           /\ changed' = r.changed
           /\ updated' = Append(updated, r.line)
    /\ idx' = idx + 1
    /\ UNCHANGED <<disk, cfg, sym_type, chops, pc, patch_name, patch_type, lines, result, err,
                   orig, first, calls>>

\* open(blockmesh_path, "w"): the file is truncated.
OpenForWrite ==
    /\ pc = "scan"
    /\ idx > Len(lines)
    /\ disk' = <<>>
    /\ pc' = "write"
    /\ UNCHANGED <<cfg, sym_type, chops, patch_name, patch_type, lines, idx, in_patch, seen_name,
                   changed, updated, result, err, orig, first, calls>>

\* f.writelines(updated)
WriteBack ==
    /\ pc = "write"
    /\ disk' = Writelines(updated)
    /\ pc' = "check"
    /\ UNCHANGED <<cfg, sym_type, chops, patch_name, patch_type, lines, idx, in_patch, seen_name,
                   changed, updated, result, err, orig, first, calls>>

\* if not changed: raise RuntimeError(...)
CheckChanged ==
    /\ pc = "check"
    /\ result' = IF changed THEN "ok" ELSE "RuntimeError"
    /\ err' = IF changed THEN NoError ELSE FailureMessage(patch_name, patch_type)
    /\ calls' = calls + 1
    /\ first' = IF calls = 0 THEN disk ELSE first
    /\ pc' = "done"
    /\ UNCHANGED <<disk, cfg, sym_type, chops, patch_name, patch_type, lines, idx, in_patch,
                   seen_name, changed, updated, orig>>

\* A caller applies the corrector again to the file it corrected, with the same
\* patch name and type.
Reapply ==
    /\ pc = "done"
    /\ result = "ok"
    /\ calls < MaxCalls
    /\ pc' = "enforce"
    /\ UNCHANGED <<disk, cfg, sym_type, chops, patch_name, patch_type, lines, idx, in_patch,
                   seen_name, changed, updated, result, err, orig, first, calls>>

-----------------------------------------------------------------------------
\* Actions of main and build_quarter_cylinder.

\* main: the symmetry type is normalized before the build.
MainNormalize ==
    /\ pc = "main"
    /\ sym_type' = NormalizeSymType(cfg.symmetry_patch_type)
    /\ pc' = "build"
    /\ UNCHANGED <<disk, cfg, chops, patch_name, patch_type, lines, idx, in_patch, seen_name,
                   changed, updated, result, err, orig, first, calls>>

\* build_quarter_cylinder: the three chops handed to the engine.
BuildChop ==
    /\ pc = "build"
    /\ chops' = Chops(cfg)
    /\ pc' = "mesh_write"
    /\ UNCHANGED <<disk, cfg, sym_type, patch_name, patch_type, lines, idx, in_patch, seen_name,
                   changed, updated, result, err, orig, first, calls>>

\* mesh.write(output_path) succeeds: the engine's serialization is on disk, and
\* enforce_patch_type(output_path, symmetry_patch, symmetry_patch_type) is called.
MeshWrite ==
    /\ pc = "mesh_write"
    /\ \E f \in EngineOutputs : disk' = f
    /\ patch_name' = cfg.symmetry_patch
    /\ patch_type' = sym_type
    /\ pc' = "enforce"
    /\ UNCHANGED <<cfg, sym_type, chops, lines, idx, in_patch, seen_name, changed, updated,
                   result, err, orig, first, calls>>

\* os.makedirs or mesh.write raises: the run ends without a descriptor.
MeshWriteFails ==
    /\ pc = "mesh_write"
    /\ result' = "EngineError"
    /\ pc' = "exit"
    /\ UNCHANGED <<disk, cfg, sym_type, chops, patch_name, patch_type, lines, idx, in_patch,
                   seen_name, changed, updated, err, orig, first, calls>>

\* enforce_patch_type returned or raised; build returns the path and main
\* reports it, or the error ends the run.
MainExit ==
    /\ pc = "done"
    /\ pc' = "exit"
    /\ UNCHANGED <<disk, cfg, sym_type, chops, patch_name, patch_type, lines, idx, in_patch,
                   seen_name, changed, updated, result, err, orig, first, calls>>

-----------------------------------------------------------------------------
\* Specifications.

\* The corrector applied to an arbitrary descriptor file.
Init ==
    /\ disk \in Files
    /\ patch_name = S_symmetryPlane
    /\ patch_type \in PatchTypes
    /\ cfg = DefaultConfig
    /\ sym_type = NoneVal
    /\ chops = NoChops
    /\ pc = "enforce"
    /\ lines = <<>>
    /\ idx = 1
    /\ in_patch = FALSE
    /\ seen_name = FALSE
    /\ changed = FALSE
    /\ updated = <<>>
    /\ result = "none"
    /\ err = NoError
    /\ orig = disk
    /\ first = <<>>
    /\ calls = 0

Next == ReadLines \/ ScanLine \/ OpenForWrite \/ WriteBack \/ CheckChanged \/ Reapply

Spec == Init /\ [][Next]_vars

\* One run of the script, from the loaded configuration to its exit.
InitMain ==
    /\ disk = NoFile
    /\ cfg \in Configs
    /\ patch_name = <<>>
    /\ patch_type = NoneVal
    /\ sym_type = NoneVal
    /\ chops = NoChops
    /\ pc = "main"
    /\ lines = <<>>
    /\ idx = 1
    /\ in_patch = FALSE
    /\ seen_name = FALSE
    /\ changed = FALSE
    /\ updated = <<>>
    /\ result = "none"
    /\ err = NoError
    /\ orig = NoFile
    /\ first = <<>>
    /\ calls = 0

NextMain ==
    \/ MainNormalize \/ BuildChop \/ MeshWrite \/ MeshWriteFails
    \/ ReadLines \/ ScanLine \/ OpenForWrite \/ WriteBack \/ CheckChanged \/ MainExit

SpecMain == InitMain /\ [][NextMain]_vars

-----------------------------------------------------------------------------
\* The scanner as the design describes it: a three-state machine over the
\* lines of the file, started in SEARCHING.

MachineStep(st, line, pname) ==
    LET stripped == Strip(line)
    IN  CASE st = "SEARCHING" -> IF stripped = pname THEN "ARMED" ELSE "SEARCHING"
          [] st = "ARMED" -> IF StartsWith(stripped, S_open) THEN "IN_BLOCK" ELSE "ARMED"
          [] st = "IN_BLOCK" -> IF StartsWith(stripped, S_close) THEN "SEARCHING" ELSE "IN_BLOCK"

\* The machine's state after the first k lines of ls.
RECURSIVE MachineAfter(_, _, _)
MachineAfter(ls, k, pname) ==
    IF k = 0 THEN "SEARCHING" ELSE MachineStep(MachineAfter(ls, k - 1, pname), ls[k], pname)

\* The state the flags of the code stand for.
FlagState == IF in_patch THEN "IN_BLOCK" ELSE IF seen_name THEN "ARMED" ELSE "SEARCHING"

\* The lines the machine rewrites: `type` lines met in IN_BLOCK.
MachineRewrites(ls, pname) ==
    { k \in 1..Len(ls) :
        MachineAfter(ls, k - 1, pname) = "IN_BLOCK" /\ StartsWith(Strip(ls[k]), S_type) }

\* <original leading whitespace>type <desired_type>; and the line terminator.
Replacement(line, ptype) ==
    SubSeq(line, 1, LeadingWs(line)) \o <<"t", "y", "p", "e", " ">> \o ptype.s \o <<";", "\n">>

\* A line without its terminator.
LineText(line) ==
    IF line # <<>> /\ line[Len(line)] = LF THEN SubSeq(line, 1, Len(line) - 1) ELSE line

\* The `type` lines inside a block of the patch pname: a block is the patch's
\* when the line before its opening brace is the patch's name line.
TargetTypeLines(ls, pname) ==
    { k \in 1..Len(ls) :
        /\ StartsWith(Strip(ls[k]), S_type)
        /\ \E j \in 1..(k - 2) :
              /\ Strip(ls[j]) = pname
              /\ StartsWith(Strip(ls[j + 1]), S_open)
              /\ \A m \in (j + 2)..(k - 1) : ~StartsWith(Strip(ls[m]), S_close) }

-----------------------------------------------------------------------------
\* Claims.

\* C1: whenever enforce_patch_type succeeds, the file has the same number of
\* lines in the same order, every line other than a `type` line inside the
\* target patch's block has the text it had in the input, and so the blocks of
\* all other patches are unchanged.
C1_OnlyTargetBlockChanges ==
    (pc = "done" /\ result = "ok") =>
        LET before == Readlines(orig)
            after == Readlines(disk)
        IN  /\ Len(after) = Len(before)
            /\ \A k \in 1..Len(before) :
                  k \notin TargetTypeLines(before, patch_name)
                      => LineText(after[k]) = LineText(before[k])

\* C2: on a descriptor with no block of the requested patch, enforce_patch_type
\* fails with its error and the file on disk afterwards equals the file before
\* the call.
C2_FailureLeavesFileUntouched ==
    (pc = "done" /\ \A k \in 1..Len(lines) : Strip(lines[k]) # patch_name) =>
        /\ result = "RuntimeError"
        /\ disk = orig

\* C3: enforce_patch_type returns normally exactly when it rewrote a `type`
\* line; when it rewrote none (the block never entered, or entered and holding
\* no `type` line) it raises the error naming the patch and the desired type.
C3_ReturnsIffRewritten ==
    (pc = "done") =>
        /\ (result = "ok") <=> (MachineRewrites(lines, patch_name) # {})
        /\ result # "ok" =>
              /\ result = "RuntimeError"
              /\ err.patch = patch_name
              /\ err.type = patch_type.s
        /\ result = "ok" => err = NoError

\* C3 witness: the block was entered, it holds no `type` line, the call failed.
C3_Witness ==
    /\ pc = "done"
    /\ result = "RuntimeError"
    /\ \E k \in 1..Len(lines) : MachineAfter(lines, k, patch_name) = "IN_BLOCK"

\* C4: applying enforce_patch_type a second time to the file it corrected,
\* with the same patch name and type, succeeds and leaves the file as the
\* first application left it.
C4_Idempotent ==
    (pc = "done" /\ calls >= 2) => (result = "ok" /\ disk = first)

\* C4 witness: a second application has ended on a file whose `type` line the
\* first application changed from `patch` or `wall` to `symmetry`.
C4_Witness ==
    /\ pc = "done"
    /\ calls = 2
    /\ patch_type = StrVal(S_symmetry)
    /\ \E k \in 1..Len(lines) : Strip(lines[k]) = <<"t", "y", "p", "e", " ">> \o S_symmetry \o <<";">>
    /\ disk = first

\* C5 as claimed: a successful correction rewrites exactly one `type` line.
C5_ExactlyOneRewritten ==
    (pc = "done" /\ result = "ok") => Cardinality(MachineRewrites(lines, patch_name)) = 1

\* C5 amended: a successful correction rewrites at least one `type` line, and
\* every `type` line of every block entered after the patch's name line reads
\* `<indent>type <desired_type>;` in the file on disk, be it one or several.
C5_AtLeastOneRewritten ==
    (pc = "done" /\ result = "ok") =>
        /\ MachineRewrites(lines, patch_name) # {}
        /\ Len(Readlines(disk)) = Len(lines)
        /\ \A k \in MachineRewrites(lines, patch_name) :
              Readlines(disk)[k] = Replacement(lines[k], patch_type)

\* C5 witness: a successful correction that rewrote two lines.
C5_Witness ==
    /\ pc = "done"
    /\ result = "ok"
    /\ Cardinality(MachineRewrites(lines, patch_name)) >= 2
    /\ disk = Writelines(updated)

\* C6: a run of the script ends either with the corrected descriptor at the
\* output path or failed with no descriptor there; a failed run leaves no
\* uncorrected descriptor.
C6_NoUncorrectedOutput ==
    (pc = "exit") =>
        \/ result = "ok" /\ disk # NoFile /\ MachineRewrites(Readlines(orig), patch_name) # {}
        \/ result # "ok" /\ disk = NoFile

\* The comparison of two strings without regard to case.
CaseInsensitiveEq(a, b) ==
    /\ Len(a) = Len(b)
    /\ \A k \in 1..Len(a) : LowerChar(a[k]) = LowerChar(b[k])

\* C7 as claimed: a token equal to "symmetryplane" without regard to case
\* becomes "symmetry", an absent token becomes "symmetry", and any other token
\* is passed on unchanged.
C7_OtherTokensPassThrough ==
    (pc # "main") =>
        LET t == cfg.symmetry_patch_type
        IN  IF t.kind = "none" THEN sym_type = StrVal(S_symmetry)
            ELSE IF CaseInsensitiveEq(t.s, S_symmetryplane) THEN sym_type = StrVal(S_symmetry)
            ELSE sym_type = t

\* C7 amended: an absent token, and a token that is false in Python (the empty
\* string, 0), becomes "symmetry"; a token whose text equals "symmetryplane"
\* without regard to case becomes "symmetry"; any other token is passed on
\* unchanged.
C7_FalsyTokensDefault ==
    (pc # "main") =>
        LET t == cfg.symmetry_patch_type
        IN  IF t.kind = "none" \/ t = StrVal(<<>>) \/ t = IntVal(<<"0">>)
            THEN sym_type = StrVal(S_symmetry)
            ELSE IF CaseInsensitiveEq(t.s, S_symmetryplane) THEN sym_type = StrVal(S_symmetry)
            ELSE sym_type = t

\* C7 witness: the empty string was configured and "symmetry" is passed on.
C7_Witness ==
    /\ pc = "build"
    /\ cfg.symmetry_patch_type = StrVal(<<>>)
    /\ sym_type = StrVal(S_symmetry)

\* The engine wrote the block of patch pname the usual way: the name line, the
\* opening brace on the next line, then `type patch;` at line k.
UsualBlockAt(ls, pname, k) ==
    /\ k \in TargetTypeLines(ls, pname)
    /\ Strip(ls[k]) = <<"t", "y", "p", "e", " ">> \o S_patch \o <<";">>

\* C8: a run with symmetry_patch_type "symmetryPlane" and the default patch
\* names, in which the engine wrote the block symmetryPlane { type patch; },
\* succeeds; the corrector was called on the written file for the patch
\* symmetryPlane with the type "symmetry", and the block's line reads
\* `type symmetry;`.
C8_EndToEnd ==
    (/\ pc = "exit"
     /\ cfg.symmetry_patch_type = StrVal(S_symmetryPlane)
     /\ \E k \in 1..Len(Readlines(orig)) : UsualBlockAt(Readlines(orig), S_symmetryPlane, k)) =>
        /\ result = "ok"
        /\ patch_name = S_symmetryPlane
        /\ patch_type = StrVal(S_symmetry)
        /\ \A k \in 1..Len(Readlines(orig)) :
              UsualBlockAt(Readlines(orig), S_symmetryPlane, k) =>
                  Strip(Readlines(disk)[k]) = <<"t", "y", "p", "e", " ">> \o S_symmetry \o <<";">>

\* C8 witness: such a run has ended.
C8_Witness ==
    /\ pc = "exit"
    /\ result = "ok"
    /\ cfg.symmetry_patch_type = StrVal(S_symmetryPlane)
    /\ \E k \in 1..Len(Readlines(orig)) : UsualBlockAt(Readlines(orig), S_symmetryPlane, k)
    /\ disk # orig

\* C9: the radial chop carries only the count when no wall-adjacent size is
\* configured; with a positive size it carries the same count, that size as
\* the boundary cell size and the expansion ratio 1.2.  The axial and the
\* tangential chop carry only their counts.
C9_GradingPolicy ==
    (pc \notin {"main", "build"}) =>
        /\ chops.axial = [count |-> cfg.axial_cells]
        /\ chops.tangential = [count |-> cfg.tangential_cells]
        /\ chops.radial.count = cfg.radial_cells
        /\ cfg.wall_thickness = <<>> => DOMAIN chops.radial = {"count"}
        /\ (cfg.wall_thickness # <<>> /\ cfg.wall_thickness[1] > 0) =>
              /\ DOMAIN chops.radial = {"count", "end_size", "c2c_expansion"}
              /\ chops.radial.end_size = cfg.wall_thickness[1]
              /\ chops.radial.c2c_expansion * 10 = 120

\* C9 witness: chops were computed for a positive wall-adjacent size.
C9_Witness ==
    /\ pc = "mesh_write"
    /\ cfg.wall_thickness # <<>>
    /\ cfg.wall_thickness[1] > 0
    /\ "end_size" \in DOMAIN chops.radial

\* C10: throughout the scan the flags in_patch and seen_name stand for the
\* state the three-state machine is in after the lines scanned so far, never
\* both set, and the lines appended so far are the input lines with exactly
\* the `type` lines met in IN_BLOCK replaced by
\* `<original leading whitespace>type <desired_type>;`.
C10_ScannerIsTheMachine ==
    (pc = "scan") =>
        /\ ~(in_patch /\ seen_name)
        /\ FlagState = MachineAfter(lines, idx - 1, patch_name)
        /\ Len(updated) = idx - 1
        /\ \A k \in 1..(idx - 1) :
              updated[k] = IF k \in MachineRewrites(lines, patch_name)
                           THEN Replacement(lines[k], patch_type)
                           ELSE lines[k]

\* C10 witness: the scan entered a block, rewrote a line in it, and the block
\* closed again.
C10_Witness ==
    /\ pc = "scan"
    /\ idx > 1
    /\ changed
    /\ FlagState = "SEARCHING"
    /\ MachineAfter(lines, idx - 2, patch_name) = "IN_BLOCK"

====
